---- MODULE Spec2Model ----
(***************************************************************************)
(* NebulaVRF core: seed -> key -> BLS signature derivation and             *)
(* verification (src/src/vrf/bls.rs), the commit/reveal hash               *)
(* (src/src/vrf/commit.rs), the sample-payload generator                   *)
(* (src/src/helpers.rs) and the /verify-random handler                     *)
(* (src/api/handlers/mod.rs).                                              *)
(*                                                                         *)
(* The pairing curve and SHA-256 are external libraries (blst, sha2).      *)
(* SHA-256 is computed as specified; the curve is modelled by a small      *)
(* algebraic stand-in that keeps what the repository's code relies on:     *)
(*   - the two groups are the additive group of integers modulo a prime    *)
(*     ScalarOrder; a group element k stands for k*G, and the pairing      *)
(*     check e(sig, G) = e(H(m), pk) becomes  sig = pk * H(m)  (mod r);    *)
(*   - a point is written in the ZCash layout blst uses: a big-endian x    *)
(*     coordinate with the three flag bits (compressed, infinity, sign)    *)
(*     in the first byte, and x || y when uncompressed; parsing rejects    *)
(*     wrong lengths, wrong flags, non-canonical coordinates and           *)
(*     coordinates that are not on the curve, and accepts points of the    *)
(*     curve outside the prime-order subgroup (verification rejects them). *)
(***************************************************************************)
EXTENDS Integers, Sequences, FiniteSets, TLC

VARIABLES call, kept, payload

vars == <<call, kept, payload>>

(***************************************************************************)
(* Bounds of the model.                                                    *)
(***************************************************************************)
MaxSeedLen == 2
MaxSaltLen == 2

\* The byte values seeds and salts are drawn from ("a", "b").
SeedBytes == {97, 98}

RECURSIVE ByteSeqs(_)
ByteSeqs(n) ==
    IF n = 0 THEN {<<>>}
    ELSE LET shorter == ByteSeqs(n - 1)
         IN  shorter \cup {s \o <<b>> : s \in {t \in shorter : Len(t) = n - 1}, b \in SeedBytes}

Seeds == ByteSeqs(MaxSeedLen)
Salts == ByteSeqs(MaxSaltLen)

None == [kind |-> "none"]

(***************************************************************************)
(* Bytes.                                                                  *)
(***************************************************************************)
RECURSIVE XorBits(_, _, _)
XorBits(a, m, b) ==
    IF b = 8 THEN 0
    ELSE (((a \div (2 ^ b)) + (m \div (2 ^ b))) % 2) * (2 ^ b) + XorBits(a, m, b + 1)

\* a ^ m on u8
XorByte(a, m) == XorBits(a, m, 0)

\* a & m on u8, for the flag masks 0x80, 0x40, 0x20
HasBit(a, m) == (a \div m) % 2 = 1

Zeros(n) == [i \in 1..n |-> 0]

\* bytes[i] ^= mask
XorAt(bytes, i, mask) == [bytes EXCEPT ![i] = XorByte(bytes[i], mask)]

(***************************************************************************)
(* sha2::Sha256 (external): SHA-256 as specified in FIPS 180-4, on byte    *)
(* strings of any length.                                                  *)
(***************************************************************************)
DIGEST_SIZE == 32

\* A u32 is a pair <<high 16 bits, low 16 bits>>.
HALF == 2 ^ 16

\* One bit of the three bitwise functions of SHA-256.
BitOf(f, a, b, c) ==
    CASE f = "xor" -> (a + b + c) % 2
      [] f = "ch"  -> IF a = 1 THEN b ELSE c
      [] f = "maj" -> (a + b + c) \div 2

\* f applied to each of the n low bits of a, b, c (n a power of two).
RECURSIVE Bitwise(_, _, _, _, _)
Bitwise(f, a, b, c, n) ==
    IF n = 1 THEN BitOf(f, a, b, c)
    ELSE LET h == n \div 2
             m == 2 ^ h
         IN  Bitwise(f, a % m, b % m, c % m, h)
             + m * Bitwise(f, a \div m, b \div m, c \div m, h)

\* f on u32
Bitwise32(f, x, y, z) ==
    <<Bitwise(f, x[1], y[1], z[1], 16), Bitwise(f, x[2], y[2], z[2], 16)>>

\* x.wrapping_add(y)
Add32(x, y) ==
    LET lo == x[2] + y[2]
    IN  <<(x[1] + y[1] + lo \div HALF) % HALF, lo % HALF>>

\* x.rotate_right(n), 0 < n < 32
Rotr32(x, n) ==
    LET k == n % 16
        m == 2 ^ k
        u == 2 ^ (16 - k)
        hi == IF n < 16 THEN x[1] ELSE x[2]
        lo == IF n < 16 THEN x[2] ELSE x[1]
    IN  <<hi \div m + (lo % m) * u, lo \div m + (hi % m) * u>>

\* x >> n, 0 < n < 16
Shr32(x, n) ==
    LET m == 2 ^ n
    IN  <<x[1] \div m, x[2] \div m + (x[1] % m) * 2 ^ (16 - n)>>

\* The round constants and the initial hash value of SHA-256 (FIPS 180-4).
K256 ==
    <<
      <<17034, 12184>>, <<28983, 17553>>, <<46528, 64463>>, <<59829, 56229>>,
      <<14678, 49755>>, <<23025, 4593>>, <<37439, 33444>>, <<43804, 24277>>,
      <<55303, 43672>>, <<4739, 23297>>, <<9265, 34238>>, <<21772, 32195>>,
      <<29374, 23924>>, <<32990, 45566>>, <<39900, 1703>>, <<49563, 61812>>,
      <<58523, 27073>>, <<61374, 18310>>, <<4033, 40390>>, <<9228, 41420>>,
      <<11753, 11375>>, <<19060, 33962>>, <<23728, 43484>>, <<30457, 35034>>,
      <<38974, 20818>>, <<43057, 50797>>, <<45059, 10184>>, <<48985, 32711>>,
      <<50912, 3059>>, <<54695, 37191>>, <<1738, 25425>>, <<5161, 10599>>,
      <<10167, 2693>>, <<11803, 8504>>, <<19756, 28156>>, <<21304, 3347>>,
      <<25866, 29524>>, <<30314, 2747>>, <<33218, 51502>>, <<37490, 11397>>,
      <<41663, 59553>>, <<43034, 26187>>, <<49739, 35696>>, <<51052, 20899>>,
      <<53650, 59417>>, <<54937, 1572>>, <<62478, 13701>>, <<4202, 41072>>,
      <<6564, 49430>>, <<7735, 27656>>, <<10056, 30540>>, <<13488, 48309>>,
      <<14620, 3251>>, <<20184, 43594>>, <<23452, 51791>>, <<26670, 28659>>,
      <<29839, 33518>>, <<30885, 25455>>, <<33992, 30740>>, <<36039, 520>>,
      <<37054, 65530>>, <<42064, 27883>>, <<48889, 41975>>, <<50801, 30962>>
    >>

H256_INIT ==
    <<
      <<27145, 58983>>, <<47975, 44677>>, <<15470, 62322>>, <<42319, 62778>>,
      <<20750, 21119>>, <<39685, 26764>>, <<8067, 55723>>, <<23520, 52505>>
    >>

SmallSigma0(x) == Bitwise32("xor", Rotr32(x, 7), Rotr32(x, 18), Shr32(x, 3))
SmallSigma1(x) == Bitwise32("xor", Rotr32(x, 17), Rotr32(x, 19), Shr32(x, 10))
BigSigma0(x) == Bitwise32("xor", Rotr32(x, 2), Rotr32(x, 13), Rotr32(x, 22))
BigSigma1(x) == Bitwise32("xor", Rotr32(x, 6), Rotr32(x, 11), Rotr32(x, 25))

\* The message schedule w with its next word appended.
ExtendSchedule(w) ==
    LET i == Len(w) + 1
    IN  Append(w, Add32(Add32(SmallSigma1(w[i - 2]), w[i - 7]),
                        Add32(SmallSigma0(w[i - 15]), w[i - 16])))

\* w extended by k words (the first half is evaluated before the second)
RECURSIVE Schedule(_, _)
Schedule(w, k) ==
    IF k = 0 THEN w
    ELSE IF k = 1 THEN ExtendSchedule(w)
    ELSE LET first == Schedule(w, k \div 2)
         IN  IF Len(first) > 0 THEN Schedule(first, k - k \div 2) ELSE first

\* The working variables s after a round with temporaries t1, t2.
RoundWith(s, t1, t2) ==
    <<Add32(t1, t2), s[1], s[2], s[3], Add32(s[4], t1), s[5], s[6], s[7]>>

\* Round t of the compression function on the working variables s.
Round(s, w, t) ==
    RoundWith(s,
              Add32(Add32(Add32(s[8], BigSigma1(s[5])),
                          Add32(Bitwise32("ch", s[5], s[6], s[7]), K256[t])),
                    w[t]),
              Add32(BigSigma0(s[1]), Bitwise32("maj", s[1], s[2], s[3])))

\* Rounds lo..hi
RECURSIVE Rounds(_, _, _, _)
Rounds(s, w, lo, hi) ==
    IF lo = hi THEN Round(s, w, lo)
    ELSE LET mid == (lo + hi) \div 2
             first == Rounds(s, w, lo, mid)
         IN  IF Len(first) > 0 THEN Rounds(first, w, mid + 1, hi) ELSE first

\* The 16 big-endian words of a 64-byte block.
BlockWords(block) ==
    [j \in 1..16 |-> <<block[4 * j - 3] * 256 + block[4 * j - 2],
                       block[4 * j - 1] * 256 + block[4 * j]>>]

\* The hash value h with the working variables s added to it.
AddState(h, s) ==
    <<Add32(h[1], s[1]), Add32(h[2], s[2]), Add32(h[3], s[3]), Add32(h[4], s[4]),
      Add32(h[5], s[5]), Add32(h[6], s[6]), Add32(h[7], s[7]), Add32(h[8], s[8])>>

\* The hash value h after the block with message schedule w.
CompressSchedule(h, w) ==
    IF Len(w) > 0 THEN AddState(h, Rounds(h, w, 1, 64)) ELSE h

\* The compression function: the hash value h after one more block.
Sha256Compress(h, block) == CompressSchedule(h, Schedule(BlockWords(block), 48))

\* The message followed by 0x80, zeros up to 56 mod 64, and its length in
\* bits as a big-endian u64.
Sha256Pad(input) ==
    LET n == Len(input)
        zeros == (119 - (n % 64)) % 64
        bits == [j \in 1..8 |-> IF j < 4 THEN 0
                                ELSE IF j = 4 THEN n \div (2 ^ 29)
                                ELSE ((n * 8) \div (256 ^ (8 - j))) % 256]
    IN  input \o <<128>> \o [j \in 1..zeros |-> 0] \o bits

\* The hash value after blocks lo..hi of the padded message m.
RECURSIVE Sha256Blocks(_, _, _, _)
Sha256Blocks(h, m, lo, hi) ==
    IF lo = hi THEN Sha256Compress(h, SubSeq(m, 64 * lo - 63, 64 * lo))
    ELSE LET mid == (lo + hi) \div 2
             first == Sha256Blocks(h, m, lo, mid)
         IN  IF Len(first) > 0 THEN Sha256Blocks(first, m, mid + 1, hi) ELSE first

\* The hash value h as 32 big-endian bytes.
Sha256Bytes(h) ==
    [i \in 1..DIGEST_SIZE |->
        IF i % 2 = 1 THEN h[(i + 3) \div 4][((i - 1) % 4) \div 2 + 1] \div 256
        ELSE h[(i + 3) \div 4][((i - 1) % 4) \div 2 + 1] % 256]

\* The digest of the padded message m.
Sha256Padded(m) == Sha256Bytes(Sha256Blocks(H256_INIT, m, 1, Len(m) \div 64))

\* SHA-256 of input, computed block by block.
Sha256Of(input) == Sha256Padded(Sha256Pad(input))

\* The byte strings the callers of the model hash: seeds, and seeds
\* followed by salts.
HashedInputs == ByteSeqs(MaxSeedLen + MaxSaltLen)

\* Their digests, computed once.
KnownDigests == [input \in HashedInputs |-> Sha256Of(input)]

\* Sha256::digest
Sha256Digest(input) ==
    IF input \in HashedInputs THEN KnownDigests[input] ELSE Sha256Of(input)

\* utils::hash::sha256
sha256(input) == Sha256Digest(input)

(***************************************************************************)
(* blst (external): scalars, points, encodings.                            *)
(***************************************************************************)
\* Order of the groups (a prime), and of the stand-in coordinate field.
ScalarOrder == 2 ^ 15 - 19

HalfOrder == (ScalarOrder - 1) \div 2

\* Sizes of the encodings: G1 compressed 48, G2 compressed 96;
\* uncompressed is twice the compressed size.
G1_COMPRESSED_SIZE == 48
G2_COMPRESSED_SIZE == 96

RECURSIVE PowMod(_, _, _)
PowMod(b, e, m) ==
    IF e = 0 THEN 1 % m
    ELSE LET h == PowMod(b, e \div 2, m)
             sq == (h * h) % m
         IN  IF e % 2 = 1 THEN (sq * (b % m)) % m ELSE sq

\* The bytes lo..hi of a byte string folded into 0..m-1: the value of the
\* polynomial sum of (bytes[i] + 1) * 257^(hi - i), modulo m.
RECURSIVE FoldRange(_, _, _, _)
FoldRange(bytes, lo, hi, m) ==
    IF lo > hi THEN 0
    ELSE IF lo = hi THEN (bytes[lo] + 1) % m
    ELSE LET mid == (lo + hi) \div 2
         IN  (FoldRange(bytes, lo, mid, m) * PowMod(257, hi - mid, m)
              + FoldRange(bytes, mid + 1, hi, m)) % m

FoldBytes(bytes, m) == FoldRange(bytes, 1, Len(bytes), m)

\* SecretKey::key_gen(ikm, key_info = []): BLST_BAD_ENCODING for an ikm
\* shorter than 32 bytes, else a nonzero scalar determined by ikm.
KeyGenScalar(ikm) == 1 + FoldBytes(ikm, ScalarOrder - 1)

key_gen(ikm) ==
    IF Len(ikm) < 32 THEN [ok |-> FALSE, err |-> "BLST_BAD_ENCODING"]
    ELSE [ok |-> TRUE, sk |-> KeyGenScalar(ikm)]

\* hash_to_curve(msg, dst): a non-identity group element determined by
\* the message and the domain-separation tag.
HashToCurve(msg, dst) ==
    LET tagged == msg \o dst \o <<Len(dst)>>
    IN  1 + FoldBytes(tagged, ScalarOrder - 1)

\* The point k*G: the identity for k = 0, else (x, y) with y = k and
\* x shared by k*G and -(k*G).
Infinity == [inf |-> TRUE, x |-> 0, y |-> 0]

PointOf(k) ==
    IF k % ScalarOrder = 0 THEN Infinity
    ELSE LET kk == k % ScalarOrder
         IN  [inf |-> FALSE, x |-> IF kk <= HalfOrder THEN kk ELSE ScalarOrder - kk, y |-> kk]

OnCurve(x, y) == x \in 1..(ScalarOrder - 1) /\ y \in {x, ScalarOrder - x}

InSubgroup(pt) == pt.inf \/ pt.x <= HalfOrder

Dlog(pt) == IF pt.inf THEN 0 ELSE pt.y

\* sk.sk_to_pk() and sk.sign(msg, dst, aug = [])
sk_to_pk(sk) == PointOf(sk)

sign(sk, msg, dst) == PointOf((sk * HashToCurve(msg, dst)) % ScalarOrder)

\* A coordinate as n big-endian bytes.
CoordBytes(v, n) ==
    [i \in 1..n |->
        IF i = n THEN v % 256
        ELSE IF i = n - 1 THEN (v \div 256) % 256
        ELSE 0]

\* A coordinate read from n big-endian bytes: -1 when it is not below the
\* field modulus.
CoordValue(bytes) ==
    LET n == Len(bytes)
    IN  IF \E i \in 1..(n - 2) : bytes[i] # 0 THEN -1
        ELSE LET v == bytes[n - 1] * 256 + bytes[n]
             IN  IF v < ScalarOrder THEN v ELSE -1

\* to_bytes() / compress(): n bytes
Compress(pt, n) ==
    IF pt.inf THEN [Zeros(n) EXCEPT ![1] = 128 + 64]
    ELSE LET xb == CoordBytes(pt.x, n)
         IN  [xb EXCEPT ![1] = xb[1] + 128 + (IF pt.y > HalfOrder THEN 32 ELSE 0)]

\* serialize(): 2n bytes
Serialize(pt, n) ==
    IF pt.inf THEN [Zeros(2 * n) EXCEPT ![1] = 64]
    ELSE CoordBytes(pt.x, n) \o CoordBytes(pt.y, n)

BadEncoding == [ok |-> FALSE, err |-> "BLST_BAD_ENCODING"]
NotOnCurve == [ok |-> FALSE, err |-> "BLST_POINT_NOT_ON_CURVE"]

\* blst_p1_uncompress / blst_p2_uncompress on n bytes
Uncompress(bytes, n) ==
    LET in0 == bytes[1]
    IN  IF ~HasBit(in0, 128) THEN BadEncoding
        ELSE IF HasBit(in0, 64)
        THEN IF in0 % 64 = 0 /\ \A i \in 2..n : bytes[i] = 0
             THEN [ok |-> TRUE, pt |-> Infinity]
             ELSE BadEncoding
        ELSE LET x == CoordValue([bytes EXCEPT ![1] = in0 % 32])
                 big == HasBit(in0, 32)
             IN  IF x = -1 THEN BadEncoding
                 ELSE IF x = 0 THEN NotOnCurve
                 ELSE LET y == IF (x > HalfOrder) = big THEN x ELSE ScalarOrder - x
                      IN  [ok |-> TRUE, pt |-> [inf |-> FALSE, x |-> x, y |-> y]]

\* blst_p1_deserialize / blst_p2_deserialize
DeserializePoint(bytes, n) ==
    LET in0 == bytes[1]
    IN  IF in0 \div 32 = 0
        THEN LET x == CoordValue(SubSeq(bytes, 1, n))
                 y == CoordValue(SubSeq(bytes, n + 1, 2 * n))
             IN  IF x = -1 \/ y = -1 THEN BadEncoding
                 ELSE IF ~OnCurve(x, y) THEN NotOnCurve
                 ELSE [ok |-> TRUE, pt |-> [inf |-> FALSE, x |-> x, y |-> y]]
        ELSE IF HasBit(in0, 128) THEN Uncompress(bytes, n)
        ELSE IF HasBit(in0, 64) /\ in0 % 64 = 0 /\ \A i \in 2..(2 * n) : bytes[i] = 0
        THEN [ok |-> TRUE, pt |-> Infinity]
        ELSE BadEncoding

\* PublicKey::from_bytes / Signature::from_bytes: the length must fit the
\* compression flag of the first byte.
FromBytes(bytes, n) ==
    IF \/ (Len(bytes) = 2 * n /\ ~HasBit(bytes[1], 128))
       \/ (Len(bytes) = n /\ HasBit(bytes[1], 128))
    THEN DeserializePoint(bytes, n)
    ELSE BadEncoding

\* Signature::verify(sig_groupcheck = true, msg, dst, aug = [], pk,
\* pk_validate = true): the public key must not be the identity, both
\* points must lie in the prime-order subgroup, and the pairing equation
\* must hold.
core_verify(sig, msg, dst, pk) ==
    IF pk.inf THEN "BLST_PK_IS_INFINITY"
    ELSE IF ~InSubgroup(pk) \/ ~InSubgroup(sig) THEN "BLST_POINT_NOT_IN_GROUP"
    ELSE IF Dlog(sig) = (Dlog(pk) * HashToCurve(msg, dst)) % ScalarOrder
    THEN "BLST_SUCCESS"
    ELSE "BLST_VERIFY_FAIL"

(***************************************************************************)
(* src/src/vrf/bls.rs                                                      *)
(***************************************************************************)
\* b"BLS_SIG_BLS12381G2_XMD:SHA-256_SSWU_RO_NUL_"
BLS_DST ==
    <<66, 76, 83, 95, 83, 73, 71, 95, 66, 76, 83, 49, 50, 51, 56, 49, 71, 50,
      95, 88, 77, 68, 58, 83, 72, 65, 45, 50, 53, 54, 95, 83, 83, 87, 85, 95,
      82, 79, 95, 78, 85, 76, 95>>

\* b"NEBULA-VRF-V01-BLS12381G2"
SOROBAN_DST ==
    <<78, 69, 66, 85, 76, 65, 45, 86, 82, 70, 45, 86, 48, 49, 45, 66, 76, 83,
      49, 50, 51, 56, 49, 71, 50>>

generate_random_dst == BLS_DST
verify_proof_dst == BLS_DST

\* generate_random signing the key material instead of the seed.
generate_random_signs_ikm(seed) ==
    LET ikm == sha256(seed)
        kg == key_gen(ikm)
    IN  [ok |-> TRUE,
         output |-> Compress(sign(kg.sk, ikm, generate_random_dst), G1_COMPRESSED_SIZE),
         public_key |-> Compress(sk_to_pk(kg.sk), G2_COMPRESSED_SIZE)]

\* generate_random returning the uncompressed encodings.
generate_random_uncompressed(seed) ==
    LET kg == key_gen(sha256(seed))
    IN  [ok |-> TRUE,
         output |-> Serialize(sign(kg.sk, seed, generate_random_dst), G1_COMPRESSED_SIZE),
         public_key |-> Serialize(sk_to_pk(kg.sk), G2_COMPRESSED_SIZE)]

generate_random(seed) ==
    LET dst == generate_random_dst
        ikm == sha256(seed)
        kg == key_gen(ikm)
    IN  IF ~kg.ok THEN [ok |-> FALSE, err |-> "DeserializationError"]
        ELSE LET signature == sign(kg.sk, seed, dst)
                 pk == sk_to_pk(kg.sk)
             IN  [ok |-> TRUE,
                  output |-> Compress(signature, G1_COMPRESSED_SIZE),
                  public_key |-> Compress(pk, G2_COMPRESSED_SIZE)]

\* verify_proof reporting a failed pairing check as a malformed signature.
verify_proof_misreports(seed, signature_bytes, public_key_bytes) ==
    LET pk == FromBytes(public_key_bytes, G2_COMPRESSED_SIZE)
        sig == FromBytes(signature_bytes, G1_COMPRESSED_SIZE)
    IN  IF ~pk.ok THEN "InvalidPublicKey"
        ELSE IF ~sig.ok THEN "InvalidSignature"
        ELSE IF core_verify(sig.pt, seed, verify_proof_dst, pk.pt) = "BLST_SUCCESS"
        THEN "Ok"
        ELSE "InvalidSignature"

\* verify_proof checking against the key it derives from the seed instead
\* of the key it was given.
verify_proof_rederives_key(seed, signature_bytes, public_key_bytes) ==
    LET pk == FromBytes(public_key_bytes, G2_COMPRESSED_SIZE)
        sig == FromBytes(signature_bytes, G1_COMPRESSED_SIZE)
        own == sk_to_pk(key_gen(sha256(seed)).sk)
    IN  IF ~pk.ok THEN "InvalidPublicKey"
        ELSE IF ~sig.ok THEN "InvalidSignature"
        ELSE IF core_verify(sig.pt, seed, verify_proof_dst, own) = "BLST_SUCCESS"
        THEN "Ok"
        ELSE "VerificationFailed"

\* verify_proof parsing the signature before the public key.
verify_proof_signature_first(seed, signature_bytes, public_key_bytes) ==
    LET sig == FromBytes(signature_bytes, G1_COMPRESSED_SIZE)
    IN  IF ~sig.ok THEN "InvalidSignature"
        ELSE LET pk == FromBytes(public_key_bytes, G2_COMPRESSED_SIZE)
             IN  IF ~pk.ok THEN "InvalidPublicKey"
                 ELSE IF core_verify(sig.pt, seed, verify_proof_dst, pk.pt) = "BLST_SUCCESS"
                 THEN "Ok"
                 ELSE "VerificationFailed"

verify_proof(seed, signature_bytes, public_key_bytes) ==
    LET dst == verify_proof_dst
        pk == FromBytes(public_key_bytes, G2_COMPRESSED_SIZE)
    IN  IF ~pk.ok THEN "InvalidPublicKey"
        ELSE LET sig == FromBytes(signature_bytes, G1_COMPRESSED_SIZE)
             IN  IF ~sig.ok THEN "InvalidSignature"
                 ELSE IF core_verify(sig.pt, seed, dst, pk.pt) = "BLST_SUCCESS"
                 THEN "Ok"
                 ELSE "VerificationFailed"

(***************************************************************************)
(* src/src/vrf/commit.rs                                                   *)
(***************************************************************************)
commit(seed) == Sha256Digest(seed)

\* verify_commit comparing the first bit only.
verify_commit_first_bit(seed, commitment) ==
    commit(seed)[1] \div 128 = commitment[1] \div 128

verify_commit(seed, commitment) == commit(seed) = commitment

(***************************************************************************)
(* src/src/helpers.rs                                                      *)
(***************************************************************************)
\* compute_commitment: sha256(seed || salt)
compute_commitment(seed, salt) ==
    LET combined == seed \o salt
    IN  sha256(combined)

\* from_seed_salt signing under the tag of generate_random.
from_seed_salt_bls_dst(seed, salt) ==
    LET commitment == sha256(seed \o salt)
        secret_key == key_gen(commitment).sk
    IN  [ok |-> TRUE,
         payload |-> [kind |-> "payload", seed |-> seed, salt |-> salt,
                      commitment |-> commitment,
                      pubkey |-> Serialize(sk_to_pk(secret_key), G1_COMPRESSED_SIZE),
                      secret_key |-> secret_key,
                      signature |-> Serialize(sign(secret_key, commitment, generate_random_dst),
                                              G2_COMPRESSED_SIZE)]]

\* from_seed_salt deriving the key from the hash of the seed alone, as
\* generate_random does.
from_seed_salt_seed_key(seed, salt) ==
    LET commitment == sha256(seed \o salt)
        secret_key == key_gen(sha256(seed)).sk
    IN  [ok |-> TRUE,
         payload |-> [kind |-> "payload", seed |-> seed, salt |-> salt,
                      commitment |-> commitment,
                      pubkey |-> Serialize(sk_to_pk(secret_key), G1_COMPRESSED_SIZE),
                      secret_key |-> secret_key,
                      signature |-> Serialize(sign(secret_key, commitment, SOROBAN_DST),
                                              G2_COMPRESSED_SIZE)]]

\* SamplePayload::from_seed_salt (min_pk: public key in G1, serialized to
\* 96 bytes; signature in G2, serialized to 192 bytes)
\* from_seed_salt hashing the seed behind its length, so that the boundary
\* between seed and salt enters the commitment.
from_seed_salt_length_prefixed(seed, salt) ==
    LET combined == <<Len(seed)>> \o seed \o salt
        commitment == sha256(combined)
        kg == key_gen(commitment)
    IN  IF ~kg.ok THEN [ok |-> FALSE, err |-> "Failed to generate BLS secret key"]
        ELSE [ok |-> TRUE,
              payload |-> [kind |-> "payload", seed |-> seed, salt |-> salt,
                           commitment |-> commitment,
                           pubkey |-> Serialize(sk_to_pk(kg.sk), G1_COMPRESSED_SIZE),
                           secret_key |-> kg.sk,
                           signature |-> Serialize(sign(kg.sk, commitment, SOROBAN_DST),
                                                   G2_COMPRESSED_SIZE)]]

from_seed_salt(seed, salt) ==
    LET combined == seed \o salt
        commitment == sha256(combined)
        ikm == commitment
        kg == key_gen(ikm)
    IN  IF ~kg.ok THEN [ok |-> FALSE, err |-> "Failed to generate BLS secret key"]
        ELSE LET secret_key == kg.sk
                 pubkey == sk_to_pk(secret_key)
                 pubkey_bytes == Serialize(pubkey, G1_COMPRESSED_SIZE)
                 signature == sign(secret_key, commitment, SOROBAN_DST)
                 signature_bytes == Serialize(signature, G2_COMPRESSED_SIZE)
             IN  [ok |-> TRUE,
                  payload |-> [kind |-> "payload", seed |-> seed, salt |-> salt,
                               commitment |-> commitment, pubkey |-> pubkey_bytes,
                               secret_key |-> secret_key,
                               signature |-> signature_bytes]]

\* SamplePayload::verify: verification is skipped.
SamplePayload_verify(self) == "Ok"

\* The check the payload is generated for (blst min_pk verify, as the
\* contract runs it): parse the G1 public key and the G2 signature and
\* verify the signature over msg under dst.
min_pk_verify(msg, signature_bytes, pubkey_bytes, dst) ==
    LET pk == FromBytes(pubkey_bytes, G1_COMPRESSED_SIZE)
        sig == FromBytes(signature_bytes, G2_COMPRESSED_SIZE)
    IN  pk.ok /\ sig.ok /\ core_verify(sig.pt, msg, dst, pk.pt) = "BLST_SUCCESS"

(***************************************************************************)
(* src/api/handlers/mod.rs                                                 *)
(***************************************************************************)
HexDigits == <<"0", "1", "2", "3", "4", "5", "6", "7", "8", "9",
               "a", "b", "c", "d", "e", "f">>

\* hex::encode: two lower-case digits per byte
hex_encode(bytes) ==
    [i \in 1..(2 * Len(bytes)) |->
        IF i % 2 = 1 THEN HexDigits[(bytes[(i + 1) \div 2] \div 16) + 1]
        ELSE HexDigits[(bytes[i \div 2] % 16) + 1]]

\* The value of a hex digit of either case, -1 for any other character.
HexVal(c) ==
    IF \E d \in 1..16 : HexDigits[d] = c
    THEN (CHOOSE d \in 1..16 : HexDigits[d] = c) - 1
    ELSE CASE c = "A" -> 10 [] c = "B" -> 11 [] c = "C" -> 12
           [] c = "D" -> 13 [] c = "E" -> 14 [] c = "F" -> 15
           [] OTHER -> -1

\* hex::decode: an error for an odd length or a character that is no hex
\* digit
hex_decode(s) ==
    IF Len(s) % 2 = 1 THEN [ok |-> FALSE, err |-> "OddLength"]
    ELSE IF \E i \in 1..Len(s) : HexVal(s[i]) = -1
    THEN [ok |-> FALSE, err |-> "InvalidHexCharacter"]
    ELSE [ok |-> TRUE,
          bytes |-> [i \in 1..(Len(s) \div 2) |->
                        HexVal(s[2 * i - 1]) * 16 + HexVal(s[2 * i])]]

\* hex::decode(..).unwrap_or_default()
decode_or_default(s) ==
    LET d == hex_decode(s)
    IN  IF d.ok THEN d.bytes ELSE <<>>

\* verify_random_handler answering valid = false on any decode error.
verify_random_handler_strict(req) ==
    LET seed == hex_decode(req.seed)
        output == hex_decode(req.output)
        public_key == hex_decode(req.public_key)
    IN  [valid |-> seed.ok /\ output.ok /\ public_key.ok
                   /\ verify_proof(seed.bytes, output.bytes, public_key.bytes) = "Ok"]

\* POST /verify-random
verify_random_handler(req) ==
    LET seed == decode_or_default(req.seed)
        output == decode_or_default(req.output)
        public_key == decode_or_default(req.public_key)
        valid == verify_proof(seed, output, public_key) = "Ok"
    IN  [valid |-> valid]

(***************************************************************************)
(* The callers of the core.  call is the last call made with its inputs    *)
(* and its result; kept is what a caller has kept from an earlier call (a  *)
(* proof or a commitment, with the seed it came from); payload is the      *)
(* SamplePayload a caller holds (its fields are public).                   *)
(***************************************************************************)
\* No call is in progress.
Idle == [op |-> "idle"]

Init ==
    /\ call = Idle
    /\ kept = None
    /\ payload = None

\* The values a caller xors into one byte: each single bit, and the 0xff
\* of the repository's tests.
Masks == {1, 2, 4, 8, 16, 32, 64, 128, 255}

\* bytes with one byte changed
Flips(bytes) == {XorAt(bytes, i, m) : i \in 1..Len(bytes), m \in Masks}

\* Other byte strings a caller may pass where a point is expected: the
\* original, nothing, a truncation, the other encoding of the same point,
\* the encoding of the identity, and changes of the first and last byte.
Others(bytes, n) ==
    {bytes, <<>>, SubSeq(bytes, 1, Len(bytes) - 1),
     Serialize(FromBytes(bytes, n).pt, n), Compress(Infinity, n),
     XorAt(bytes, 1, 32), XorAt(bytes, 1, 128), XorAt(bytes, Len(bytes), 1)}

VerifyInputs ==
    {<<kept.seed, o, kept.public_key>> : o \in Flips(kept.output)}
    \cup {<<kept.seed, kept.output, p>> : p \in Flips(kept.public_key)}
    \cup (Seeds \X Others(kept.output, G1_COMPRESSED_SIZE)
                \X Others(kept.public_key, G2_COMPRESSED_SIZE))

GenerateRandomCall ==
    \E seed \in Seeds, remember \in BOOLEAN :
        LET r == generate_random(seed)
        IN  /\ call = Idle
            /\ call' = [op |-> "generate_random", seed |-> seed, result |-> r]
            /\ kept' = IF r.ok /\ remember
                       THEN [kind |-> "proof", seed |-> seed, output |-> r.output,
                             public_key |-> r.public_key]
                       ELSE kept
            /\ UNCHANGED payload

VerifyProofCall ==
    /\ call = Idle
    /\ kept.kind = "proof"
    /\ \E in \in VerifyInputs :
          call' = [op |-> "verify_proof", seed |-> in[1], output |-> in[2],
                   public_key |-> in[3],
                   result |-> verify_proof(in[1], in[2], in[3])]
    /\ UNCHANGED <<kept, payload>>

CommitCall ==
    \E seed \in Seeds, remember \in BOOLEAN :
        LET c == commit(seed)
        IN  /\ call = Idle
            /\ call' = [op |-> "commit", seed |-> seed, result |-> c]
            /\ kept' = IF remember
                       THEN [kind |-> "commitment", seed |-> seed, commitment |-> c]
                       ELSE kept
            /\ UNCHANGED payload

VerifyCommitCall ==
    /\ call = Idle
    /\ kept.kind = "commitment"
    /\ \E seed \in Seeds,
          c \in {kept.commitment, Zeros(DIGEST_SIZE)} \cup Flips(kept.commitment) :
          call' = [op |-> "verify_commit", seed |-> seed, commitment |-> c,
                   result |-> verify_commit(seed, c)]
    /\ UNCHANGED <<kept, payload>>

\* The caller has read the result; the next call may start.
Return ==
    /\ call # Idle
    /\ call' = Idle
    /\ UNCHANGED <<kept, payload>>

Next ==
    \/ Return
    \/ GenerateRandomCall
    \/ VerifyProofCall
    \/ CommitCall
    \/ VerifyCommitCall

Spec == Init /\ [][Next]_vars

(***************************************************************************)
(* The callers of the payload generator.  A caller holds one payload at a  *)
(* time.                                                                   *)
(***************************************************************************)
\* What thread_rng().fill_bytes may put in a buffer of n bytes.
RandomBytes(n) == {s \in ByteSeqs(n) : Len(s) = n}

FromSeedSaltCall ==
    \E seed \in Seeds, salt \in Salts :
        LET r == from_seed_salt(seed, salt)
        IN  /\ call = Idle
            /\ payload = None
            /\ call' = [op |-> "from_seed_salt", seed |-> seed, salt |-> salt,
                        ok |-> r.ok]
            /\ payload' = IF r.ok THEN r.payload ELSE payload
            /\ UNCHANGED kept

\* SamplePayload::generate(seed_len, salt_len)
GenerateCall ==
    \E seed_len \in 0..MaxSeedLen, salt_len \in 0..MaxSaltLen :
        \E seed \in RandomBytes(seed_len), salt \in RandomBytes(salt_len) :
            LET r == from_seed_salt(seed, salt)
            IN  /\ call = Idle
                /\ payload = None
                /\ call' = [op |-> "generate", seed_len |-> seed_len,
                            salt_len |-> salt_len, ok |-> r.ok]
                /\ payload' = IF r.ok THEN r.payload ELSE payload
                /\ UNCHANGED kept

\* The fields of a SamplePayload are public: a holder may change the last
\* byte of its signature, commitment or pubkey.
SetFieldCall ==
    /\ call = Idle
    /\ payload.kind = "payload"
    /\ \E field \in {"signature", "commitment", "pubkey"} :
          /\ payload' = [payload EXCEPT
                           ![field] = XorAt(@, Len(@), 1)]
          /\ call' = [op |-> "set_field", field |-> field]
    /\ UNCHANGED kept

PayloadVerifyCall ==
    /\ call = Idle
    /\ payload.kind = "payload"
    /\ call' = [op |-> "verify", result |-> SamplePayload_verify(payload)]
    /\ UNCHANGED <<kept, payload>>

\* The holder drops its payload; it may build another.
DropPayload ==
    /\ call = Idle
    /\ payload.kind = "payload"
    /\ payload' = None
    /\ UNCHANGED <<call, kept>>

\* Callers of the payload generator and of generate_random that keep no
\* proof.
NextPayload ==
    \/ Return
    \/ FromSeedSaltCall
    \/ GenerateCall
    \/ SetFieldCall
    \/ PayloadVerifyCall
    \/ DropPayload
    \/ (GenerateRandomCall /\ UNCHANGED kept)

SpecPayload == Init /\ [][NextPayload]_vars

(***************************************************************************)
(* The clients of POST /verify-random: they hold a proof and send it, or   *)
(* strings that are not hex, with the hex of a seed.                       *)
(***************************************************************************)
\* What a client may send for the hex string h: h itself, h without its
\* last character, h with its first character replaced, and "zz".
HexVariants(h) ==
    {h, <<"z", "z">>}
    \cup (IF Len(h) = 0 THEN {}
          ELSE {SubSeq(h, 1, Len(h) - 1), [h EXCEPT ![1] = "g"]})

VerifyRandomHandlerCall ==
    /\ call = Idle
    /\ kept.kind = "proof"
    /\ \E s \in Seeds :
          \E seed \in HexVariants(hex_encode(s)),
             output \in HexVariants(hex_encode(kept.output)),
             public_key \in HexVariants(hex_encode(kept.public_key)) :
              LET req == [seed |-> seed, output |-> output, public_key |-> public_key]
              IN  call' = [op |-> "verify_random_handler", req |-> req,
                           response |-> verify_random_handler(req)]
    /\ UNCHANGED <<kept, payload>>

NextApi ==
    \/ Return
    \/ GenerateRandomCall
    \/ VerifyRandomHandlerCall

SpecApi == Init /\ [][NextApi]_vars

(***************************************************************************)
(* Properties of the core (generate_random, verify_proof, commit,          *)
(* verify_commit), checked under Spec.                                     *)
(***************************************************************************)
\* The call just made was verify_proof on the kept proof, unchanged.
VerifiedKeptProof ==
    /\ call.op = "verify_proof"
    /\ call.output = kept.output
    /\ call.public_key = kept.public_key

\* a and b have the same length and differ in exactly one byte
OneByteChanged(a, b) ==
    /\ Len(a) = Len(b)
    /\ Cardinality({i \in 1..Len(a) : a[i] # b[i]}) = 1

\* C1: round trip.  generate_random succeeds for every seed, and
\* verify_proof on a seed with the output and public key generate_random
\* returned for that seed is Ok.
C1_RoundTrip ==
    /\ call.op = "generate_random" => call.result.ok
    /\ (VerifiedKeptProof /\ call.seed = kept.seed) => call.result = "Ok"

C1_Witness ==
    /\ VerifiedKeptProof
    /\ call.seed = <<>>
    /\ kept.seed = <<>>
    /\ call.result = "Ok"

\* C2: a wrong seed is rejected with VerificationFailed.  verify_proof on
\* a seed other than the one the proof was generated from, with that
\* proof's output and public key, is Err(VerificationFailed).
C2_WrongSeed ==
    (VerifiedKeptProof /\ call.seed # kept.seed) => call.result = "VerificationFailed"

C2_Witness ==
    /\ VerifiedKeptProof
    /\ call.seed # kept.seed
    /\ call.result = "VerificationFailed"

\* C3 as stated: tamper sensitivity.  verify_proof on the proof's own seed
\* with the output or the public key (or both) changed in one byte is
\* never Ok: it is Err(VerificationFailed), or Err(InvalidSignature) when
\* the output was changed, or Err(InvalidPublicKey) when the public key
\* was changed.
C3_TamperSensitivity ==
    LET out == OneByteChanged(call.output, kept.output)
        key == OneByteChanged(call.public_key, kept.public_key)
    IN  (/\ call.op = "verify_proof"
         /\ call.seed = kept.seed
         /\ out \/ call.output = kept.output
         /\ key \/ call.public_key = kept.public_key
         /\ out \/ key)
        => call.result \in {"VerificationFailed"}
                             \cup (IF out THEN {"InvalidSignature"} ELSE {})
                             \cup (IF key THEN {"InvalidPublicKey"} ELSE {})

\* C3 amended: verify_proof on the proof's own seed with exactly one of
\* the output and the public key changed in one byte, the other as
\* generated, is never Ok: a changed output gives Err(VerificationFailed)
\* or Err(InvalidSignature), a changed public key Err(VerificationFailed)
\* or Err(InvalidPublicKey).
C3_SingleFieldTamper ==
    /\ (/\ call.op = "verify_proof"
        /\ call.seed = kept.seed
        /\ OneByteChanged(call.output, kept.output)
        /\ call.public_key = kept.public_key)
       => call.result \in {"VerificationFailed", "InvalidSignature"}
    /\ (/\ call.op = "verify_proof"
        /\ call.seed = kept.seed
        /\ call.output = kept.output
        /\ OneByteChanged(call.public_key, kept.public_key))
       => call.result \in {"VerificationFailed", "InvalidPublicKey"}

C3_Witness ==
    /\ call.op = "verify_proof"
    /\ call.seed = kept.seed
    /\ call.public_key = kept.public_key
    /\ OneByteChanged(call.output, kept.output)
    /\ call.result = "VerificationFailed"

\* C5: commit-reveal.  verify_commit(s, commit(s)) is true, and
\* verify_commit(s1, commit(s2)) is false for s1 # s2.
C5_CommitReveal ==
    (call.op = "verify_commit" /\ call.commitment = kept.commitment)
        => (call.result <=> call.seed = kept.seed)

C5_Witness ==
    /\ call.op = "verify_commit"
    /\ call.commitment = kept.commitment
    /\ call.seed # kept.seed
    /\ call.result = FALSE

\* C7: fixed sizes.  generate_random returns a 48-byte output and a
\* 96-byte public key for every seed, whatever its length.
C7_FixedSizes ==
    call.op = "generate_random"
        => (Len(call.result.output) = 48 /\ Len(call.result.public_key) = 96)

C7_Witness ==
    /\ call.op = "generate_random"
    /\ Len(call.seed) = MaxSeedLen
    /\ Len(call.result.output) = 48
    /\ Len(call.result.public_key) = 96

(***************************************************************************)
(* Properties of the payload generator, checked under SpecPayload.         *)
(***************************************************************************)
\* The call just made built the payload.
Built == call.op \in {"from_seed_salt", "generate"} /\ payload.kind = "payload"

\* C6 as stated: one protocol-wide tag.  Every signature the core
\* produces, the output of generate_random over the seed and the
\* signature of from_seed_salt over the commitment, verifies under the tag
\* verify_proof uses.
C6_OneTag ==
    /\ call.op = "generate_random"
       => verify_proof(call.seed, call.result.output, call.result.public_key) = "Ok"
    /\ Built
       => min_pk_verify(payload.commitment, payload.signature, payload.pubkey,
                        verify_proof_dst)

\* C6 amended: generate_random and verify_proof use one fixed tag, so the
\* output verifies under verify_proof and not under SOROBAN_DST;
\* from_seed_salt signs under another fixed tag, SOROBAN_DST, so the
\* payload's signature verifies under SOROBAN_DST and not under the tag of
\* verify_proof.
C6_TwoTags ==
    /\ call.op = "generate_random"
       => /\ verify_proof(call.seed, call.result.output, call.result.public_key) = "Ok"
          /\ core_verify(FromBytes(call.result.output, G1_COMPRESSED_SIZE).pt,
                         call.seed, SOROBAN_DST,
                         FromBytes(call.result.public_key, G2_COMPRESSED_SIZE).pt)
             = "BLST_VERIFY_FAIL"
    /\ Built
       => /\ min_pk_verify(payload.commitment, payload.signature, payload.pubkey,
                           SOROBAN_DST)
          /\ ~min_pk_verify(payload.commitment, payload.signature, payload.pubkey,
                            verify_proof_dst)

C6_Witness ==
    /\ call.op = "from_seed_salt"
    /\ payload.kind = "payload"
    /\ min_pk_verify(payload.commitment, payload.signature, payload.pubkey, SOROBAN_DST)
    /\ ~min_pk_verify(payload.commitment, payload.signature, payload.pubkey,
                      generate_random_dst)

\* C8: payload binding.  from_seed_salt succeeds for every seed and salt,
\* the empty ones included; the payload holds the seed and the salt as
\* given, its commitment is compute_commitment(seed, salt), its key pair is
\* the one key generation derives from the commitment, and its signature
\* verifies under its public key over the commitment and not over the seed.
C8_PayloadBinding ==
    call.op = "from_seed_salt"
        => /\ call.ok
           /\ payload.kind = "payload"
           /\ payload.seed = call.seed
           /\ payload.salt = call.salt
           /\ payload.commitment = compute_commitment(call.seed, call.salt)
           /\ payload.secret_key = key_gen(compute_commitment(call.seed, call.salt)).sk
           /\ payload.pubkey = Serialize(sk_to_pk(payload.secret_key), G1_COMPRESSED_SIZE)
           /\ min_pk_verify(payload.commitment, payload.signature, payload.pubkey,
                            SOROBAN_DST)
           /\ ~min_pk_verify(payload.seed, payload.signature, payload.pubkey,
                             SOROBAN_DST)

C8_Witness ==
    /\ call.op = "from_seed_salt"
    /\ call.ok
    /\ call.seed = <<>>
    /\ call.salt = <<>>
    /\ payload.commitment = compute_commitment(<<>>, <<>>)

\* C9: SamplePayload::verify returns Ok only when the payload's signature
\* is a valid signature over the payload's commitment under the payload's
\* public key, and an error once the signature, the commitment or the
\* pubkey was changed.
C9_VerifyChecksSignature ==
    (call.op = "verify" /\ call.result = "Ok")
        => min_pk_verify(payload.commitment, payload.signature, payload.pubkey,
                         SOROBAN_DST)

(***************************************************************************)
(* Properties of POST /verify-random, checked under SpecApi.               *)
(***************************************************************************)
Malformed(s) == ~hex_decode(s).ok

\* The request carries the kept proof, well formed.
SendsKeptProof ==
    /\ call.req.output = hex_encode(kept.output)
    /\ call.req.public_key = hex_encode(kept.public_key)

\* C10 as stated: a request with a malformed seed, output or public_key is
\* answered valid = false.
C10_MalformedIsInvalid ==
    (/\ call.op = "verify_random_handler"
     /\ \/ Malformed(call.req.seed)
        \/ Malformed(call.req.output)
        \/ Malformed(call.req.public_key))
        => call.response.valid = FALSE

\* C10 amended: a malformed field is decoded to empty bytes and no error
\* is raised.  A request with a malformed output or public_key is answered
\* valid = false; a request with a malformed seed is verified as the empty
\* seed, so with a well-formed proof it is answered valid = true exactly
\* when the proof is the proof of the empty seed.
C10_MalformedDecodesEmpty ==
    call.op = "verify_random_handler"
        => /\ (Malformed(call.req.output) \/ Malformed(call.req.public_key))
              => call.response.valid = FALSE
           /\ (Malformed(call.req.seed) /\ SendsKeptProof)
              => (call.response.valid <=> kept.seed = <<>>)

C10_Witness ==
    /\ call.op = "verify_random_handler"
    /\ Malformed(call.req.seed)
    /\ SendsKeptProof
    /\ kept.seed = <<>>
    /\ call.response.valid = TRUE

(***************************************************************************)
(* The order of the failures of verify_proof, checked under Spec.          *)
(***************************************************************************)
\* The public key / the signature passed to the call just made parses.
KeyParses == FromBytes(call.public_key, G2_COMPRESSED_SIZE).ok
SignatureParses == FromBytes(call.output, G1_COMPRESSED_SIZE).ok

\* C12: verify_proof classifies failures in a fixed order.  A public key
\* that does not parse gives Err(InvalidPublicKey) whatever the signature
\* bytes are; a public key that parses with a signature that does not gives
\* Err(InvalidSignature); Err(VerificationFailed) is returned only when
\* both parse; InvalidCommitment and DeserializationError are never
\* returned.
C12_FailureOrder ==
    call.op = "verify_proof"
        => /\ ~KeyParses => call.result = "InvalidPublicKey"
           /\ (KeyParses /\ ~SignatureParses) => call.result = "InvalidSignature"
           /\ (KeyParses /\ SignatureParses)
              => call.result \in {"Ok", "VerificationFailed"}
           /\ call.result \notin {"InvalidCommitment", "DeserializationError"}

C12_Witness ==
    /\ call.op = "verify_proof"
    /\ ~KeyParses
    /\ ~SignatureParses
    /\ call.result = "InvalidPublicKey"

(***************************************************************************)
(* The two key derivations, checked under SpecPayload.                     *)
(***************************************************************************)
\* The proof generate_random returns is the one made with secret key sk:
\* its public key is sk * G2 and its output is sk's signature of the seed.
ProofOfKey(seed, sk) ==
    LET r == generate_random(seed)
    IN  /\ r.ok
        /\ r.public_key = Compress(sk_to_pk(sk), G2_COMPRESSED_SIZE)
        /\ r.output = Compress(sign(sk, seed, generate_random_dst), G1_COMPRESSED_SIZE)

\* The (seed, salt) pairs other than the one just used that concatenate to
\* the same bytes.
SameConcatenation ==
    {p \in Seeds \X Salts : /\ p # <<call.seed, call.salt>>
                            /\ p[1] \o p[2] = call.seed \o call.salt}

\* C13: the two key-derivation paths coincide whenever the hashed bytes
\* coincide.  A payload built by from_seed_salt(seed, empty salt) holds the
\* secret key generate_random(seed) signs with, and every other
\* (seed, salt) pair with the same concatenation gives the same commitment,
\* the same key pair and the same signature.
C13_DerivationsCoincide ==
    (call.op = "from_seed_salt" /\ call.ok)
        => /\ call.salt = <<>> => ProofOfKey(call.seed, payload.secret_key)
           /\ \A p \in SameConcatenation :
                  LET other == from_seed_salt(p[1], p[2])
                  IN  /\ other.ok
                      /\ other.payload.commitment = payload.commitment
                      /\ other.payload.secret_key = payload.secret_key
                      /\ other.payload.pubkey = payload.pubkey
                      /\ other.payload.signature = payload.signature

C13_Witness ==
    /\ call.op = "from_seed_salt"
    /\ call.ok
    /\ call.seed = <<97, 98>>
    /\ call.salt = <<97>>
    /\ <<<<97>>, <<98, 97>>>> \in SameConcatenation
    /\ ProofOfKey(call.seed \o call.salt, payload.secret_key)

====
